---- MODULE Spec2Model ----
(***************************************************************************)
(* Walk-forward evaluation of persistence forecasts (model_persistence.py). *)
(*                                                                         *)
(* A DataFrame is a record [index, cols, rows]: index is the sequence of   *)
(* row labels (timestamps, in hours since the epoch), cols the number of   *)
(* columns (shape[1]) and rows the sequence of rows, each a sequence of    *)
(* cols values.  Column labels are the positions 1..cols: every frame of   *)
(* the pipeline carries the columns of the data set, so label and position *)
(* alignment agree.                                                        *)
(*                                                                         *)
(* Floating point results (RMSE, means of errors) are kept in fixed point  *)
(* with Resolution units per 1.0.  NaN is the value -1; data values are    *)
(* non-negative.  pandas is the pandas the module was written for, in      *)
(* which DataFrame.append exists and returns a new frame.                  *)
(***************************************************************************)
EXTENDS Integers, Sequences, FiniteSets, TLC

\* ------------------------------------------------------------------ bounds
SpanDays == 2          \* days at the start of the range and a year later
MaxRows == 4           \* rows of the windowed data set
MaxErrRows == 2        \* rows of the frames handed to calculate_errors alone
Resolution == 10       \* fixed-point units per 1.0 of an error value

\* ------------------------------------------------------- program constants
NumHours == 24         \* index = [str(x) for x in range(24)]
YearOffset == 365      \* dt.timedelta(days=-365)
HoursPerDay == 24      \* dt.timedelta(days=1), in units of the index
DefaultDays == 1       \* day_hbh_persistence(history, days=1)
DefaultWindow == 3     \* ma_persistence(history, window=3)

NaN == 0 - 1

\* ----------------------------------------------------------------- helpers
Min(S) == CHOOSE x \in S : \A y \in S : x <= y
Max(S) == CHOOSE x \in S : \A y \in S : x >= y

RECURSIVE SeqSum(_)
SeqSum(s) == IF s = <<>> THEN 0 ELSE Head(s) + SeqSum(Tail(s))

RECURSIVE SortedSeq(_)
SortedSeq(S) == IF S = {} THEN <<>> ELSE <<Min(S)>> \o SortedSeq(S \ {Min(S)})

\* floor(sqrt(x)) by bisection on lo..hi, lo*lo <= x < (hi+1)*(hi+1)
RECURSIVE SqrtIn(_, _, _)
SqrtIn(x, lo, hi) ==
    IF lo = hi THEN lo
    ELSE LET mid == (lo + hi + 1) \div 2
         IN IF mid * mid <= x THEN SqrtIn(x, mid, hi) ELSE SqrtIn(x, lo, mid - 1)

\* np.sqrt on a fixed-point square (Resolution^2 units) gives Resolution units
NpSqrt(x) == SqrtIn(x, 0, x)

\* --------------------------------------------------------------- DataFrame
EmptyFrame(c) == [index |-> <<>>, cols |-> c, rows |-> <<>>]
NRows(f) == Len(f.rows)
Column(f, c) == [r \in 1..NRows(f) |-> f.rows[r][c]]
FrameRange(f, lo, hi) ==
    [index |-> SubSeq(f.index, lo, hi), cols |-> f.cols, rows |-> SubSeq(f.rows, lo, hi)]
FrameConcat(f, g) ==
    [index |-> f.index \o g.index, cols |-> f.cols, rows |-> f.rows \o g.rows]

\* data[:label] and data[label:] on a sorted DatetimeIndex: the positional
\* range of the rows whose label lies within the bound (both ends inclusive)
SliceTo(f, hi) ==
    LET P == {p \in 1..NRows(f) : f.index[p] <= hi}
    IN IF P = {} THEN EmptyFrame(f.cols) ELSE FrameRange(f, 1, Max(P))
SliceFrom(f, lo) ==
    LET P == {p \in 1..NRows(f) : f.index[p] >= lo}
    IN IF P = {} THEN EmptyFrame(f.cols) ELSE FrameRange(f, Min(P), NRows(f))

\* A split date string 'YYYY-MM-DD' is the day it names (days since the epoch).
\* As a slice bound pandas resolves the string to the whole day, so the upper
\* bound is the last hour of the day; strptime gives midnight of the day.
Midnight(day) == day * HoursPerDay
EndOfDay(day) == day * HoursPerDay + (HoursPerDay - 1)
Strptime(day) == Midnight(day)

\* -------------------------------------------------------------- exceptions
\* An exception is its type and the context attached to it on the way up.
NoExc == [type |-> "none", notes |-> {}]
Exc(t) == [type |-> t, notes |-> {}]
Ok(row) == [ok |-> TRUE, row |-> row, exc |-> NoExc]
Raise(t) == [ok |-> FALSE, row |-> <<>>, exc |-> Exc(t)]

\* -------------------------------------------------------- train_test_split
TrainPartitionExclusive(data_, split_date_) == SliceTo(data_, Strptime(split_date_) - 1)
TrainPartition(data_, split_date_) == SliceTo(data_, EndOfDay(split_date_))

TestPartitionNoIncrement(data_, split_date_) == SliceFrom(data_, Strptime(split_date_))
TestPartition(data_, split_date_) == SliceFrom(data_, Strptime(split_date_) + HoursPerDay)

\* ---------------------------------------------------------------- strategies
day_hbh_persistence(history_) ==
    IF NRows(history_) < DefaultDays THEN Raise("IndexError")
    ELSE Ok(history_.rows[NRows(history_) - DefaultDays + 1])

\* rolling(window).mean(): NaN until the window is full
ma_persistence(history_) ==
    LET n == NRows(history_) IN
    IF n = 0 THEN Raise("IndexError")
    ELSE IF n < DefaultWindow THEN Ok([c \in 1..history_.cols |-> NaN])
    ELSE Ok([c \in 1..history_.cols |->
               SeqSum([j \in 1..DefaultWindow |-> history_.rows[n - DefaultWindow + j][c]])
                 \div DefaultWindow])

same_day_oya_persistence(history_) ==
    LET n == NRows(history_) IN
    IF n = 0 THEN Raise("IndexError")
    ELSE LET day_oya == history_.index[n] - YearOffset * HoursPerDay
             P == {p \in 1..n : history_.index[p] = day_oya}
         IN IF P = {} THEN Raise("KeyError") ELSE Ok(history_.rows[Min(P)])

ModelNames == {"prev_day_persistence", "ma_persistence", "same_day_oya_persistence"}
Strategy(model_name, history_) ==
    CASE model_name = "prev_day_persistence" -> day_hbh_persistence(history_)
      [] model_name = "ma_persistence" -> ma_persistence(history_)
      [] model_name = "same_day_oya_persistence" -> same_day_oya_persistence(history_)

\* --------------------------------------------------------- calculate_errors
NpMean(s) == SeqSum(s) \div Len(s)
HasNaN(a) == \E j \in DOMAIN a : a[j] = NaN
SquaredErrors(a, b, n) == [j \in 1..n |-> (a[j] - b[j]) * (a[j] - b[j])]

MseResult(ok, value, type) == [ok |-> ok, value |-> value, exc |-> Exc(type)]

\* sklearn.metrics.mean_squared_error: ValueError on inconsistent lengths, on
\* empty input and on NaN; otherwise the mean of the squared differences
mean_squared_error(y_true, y_pred) ==
    IF Len(y_true) # Len(y_pred) THEN MseResult(FALSE, 0, "ValueError")
    ELSE IF Len(y_true) = 0 THEN MseResult(FALSE, 0, "ValueError")
    ELSE IF HasNaN(y_true) \/ HasNaN(y_pred) THEN MseResult(FALSE, 0, "ValueError")
    ELSE MseResult(TRUE,
           (SeqSum(SquaredErrors(y_true, y_pred, Len(y_true))) * Resolution * Resolution)
              \div Len(y_true),
           "none")

ErrorsFailed(result_set, e) ==
    [ok |-> FALSE, errors |-> [name |-> result_set, values |-> <<>>],
     error_mean |-> <<>>, exc |-> e]

calculate_errors(Y_hat_test, Y_test, result_set) ==
    LET \* one pass of the loop: Y_test.iloc[:, i] is out of bounds past its width
        mse == [c \in 1..Y_hat_test.cols |->
                  IF c > Y_test.cols THEN MseResult(FALSE, 0, "IndexError")
                  ELSE mean_squared_error(Column(Y_hat_test, c), Column(Y_test, c))]
        bad == {c \in 1..Y_hat_test.cols : ~mse[c].ok}
        error_list == [c \in 1..Y_hat_test.cols |-> <<NpSqrt(mse[c].value)>>]
    IN IF bad # {} THEN ErrorsFailed(result_set, mse[Min(bad)].exc)
       ELSE IF Len(error_list) = 0 THEN ErrorsFailed(result_set, Exc("IndexError"))
       ELSE IF Len(error_list) # NumHours THEN ErrorsFailed(result_set, Exc("ValueError"))
       ELSE [ok |-> TRUE,
             errors |-> [name |-> result_set,
                         values |-> [c \in 1..NumHours |-> error_list[c][1]]],
             error_mean |-> << <<NpMean(error_list[1])>> >>,
             exc |-> NoExc]

\* ------------------------------------------------- walk_forward_evaluation
\* history = train.copy(): a new frame with the rows of train, whatever the
\* previous call left behind
InitHistoryStale(train_, previous) == previous
InitHistory(train_, previous) == train_

\* history.append(test.iloc[i, :]): DataFrame.append returns a new frame and
\* leaves history as it is; the result is dropped
HistoryAfterAppend(history_, row) == history_

\* one pass of the loop body: the strategy's exception is not caught
StepControlSkip(res) == IF res.ok THEN "continue" ELSE "skip"
StepControl(res) == IF res.ok THEN "continue" ELSE "raise"

\* pd.DataFrame(predictions, index=test.index, columns=test.columns): the rows
\* in list order under test's index; ValueError when the lengths differ
BuildPredictionsReversed(predictions_, test_) ==
    IF Len(predictions_) # NRows(test_) THEN [ok |-> FALSE, frame |-> EmptyFrame(test_.cols), steps |-> <<>>]
    ELSE [ok |-> TRUE,
          frame |-> [index |-> test_.index, cols |-> test_.cols,
                     rows |-> [p \in 1..Len(predictions_) |->
                                 predictions_[Len(predictions_) + 1 - p].row]],
          steps |-> [p \in 1..Len(predictions_) |->
                                 predictions_[Len(predictions_) + 1 - p].step]]
BuildPredictions(predictions_, test_) ==
    IF Len(predictions_) # NRows(test_) THEN [ok |-> FALSE, frame |-> EmptyFrame(test_.cols), steps |-> <<>>]
    ELSE [ok |-> TRUE,
          frame |-> [index |-> test_.index, cols |-> test_.cols,
                     rows |-> [p \in 1..Len(predictions_) |-> predictions_[p].row]],
          steps |-> [p \in 1..Len(predictions_) |-> predictions_[p].step]]

\* ---------------------------------------------------- persistence_forecasts
\* no try/except between a raise and the top level: the run ends
RaiseTargetCaught == "loop"
RaiseTarget == "failed"

CollectMeansFront(error_means_, error_mean) == <<error_mean>> \o error_means_
CollectMeans(error_means_, error_mean) == Append(error_means_, error_mean)

\* pd.concat(errors, axis=1): one column per model, in list order
ConcatErrors(errors_) == errors_

\* return error_means
ReturnValue(table, error_means_) ==
    [names |-> <<"error_means">>, error_means |-> error_means_]

\* ------------------------------------------------------------------- state
VARIABLES
    data,          \* the windowed data set (get_persistence_dataset)
    split_date,    \* the day the split date string names
    model_set,     \* the registered (name, strategy) pairs, in order
    pc,            \* where the program is
    train, test,   \* the caller's partitions
    started,       \* models the runner's loop has started
    name,          \* model_name of the running evaluation
    history,       \* walk_forward_evaluation's history
    i,             \* its loop index
    predictions,   \* its list of forecasts, each with the step that made it
    calls,         \* the strategy invocations of the running evaluation
    predTable,     \* <<the Predictions Table>> once built
    errors,        \* the runner's list of Error Tables
    error_means,   \* the runner's list of Error Means
    exc,           \* the exception that ended the run
    plotted,       \* <<table>> handed to plot_error
    returned,      \* <<value>> returned by persistence_forecasts
    call_pred, call_truth, call_out   \* a call of calculate_errors on its own

vars == <<data, split_date, model_set, pc, train, test, started, name, history, i,
          predictions, calls, predTable, errors, error_means, exc, plotted, returned,
          call_pred, call_truth, call_out>>

\* ------------------------------------------------------------------ inputs
Days == (1..SpanDays) \cup {YearOffset + d : d \in 1..SpanDays}
SplitDates == {0} \cup Days

\* loads are multiples of the window, so that the moving average is exact
FlatDay == [c \in 1..NumHours |-> DefaultWindow]
PeakDay == [c \in 1..NumHours |-> IF c = 1 THEN 0 ELSE 2 * DefaultWindow]
RowPool == {FlatDay, PeakDay}

TableOn(S, rows) ==
    [index |-> [p \in 1..Cardinality(S) |-> Midnight(SortedSeq(S)[p])],
     cols |-> NumHours, rows |-> rows]
Tables ==
    UNION {{TableOn(S, rows) : rows \in [1..Cardinality(S) -> RowPool]} :
             S \in {T \in SUBSET Days : Cardinality(T) <= MaxRows}}

DefaultModelSet == <<"prev_day_persistence", "ma_persistence", "same_day_oya_persistence">>
ModelSets == {DefaultModelSet,
              <<"same_day_oya_persistence", "prev_day_persistence", "ma_persistence">>}

\* frames of any shape for calculate_errors
ErrCols == {0, NumHours - 1, NumHours, NumHours + 1}
ErrCell(kind, r, c) ==
    CASE kind = "zero" -> 0
      [] kind = "peak" -> IF c = 1 THEN 0 ELSE 2 * DefaultWindow
      [] kind = "ramp" -> r * DefaultWindow
      [] kind = "nan" -> IF r = 1 /\ c = 2 THEN NaN ELSE DefaultWindow
ErrFrame(kind, n, w) ==
    [index |-> [r \in 1..n |-> Midnight(r)], cols |-> w,
     rows |-> [r \in 1..n |-> [c \in 1..w |-> ErrCell(kind, r, c)]]]
ErrFrames ==
    {ErrFrame(kind, n, w) : kind \in {"zero", "peak", "ramp", "nan"},
                            n \in 0..MaxErrRows, w \in ErrCols}

NoCall == [ok |-> FALSE, errors |-> [name |-> "", values |-> <<>>],
           error_mean |-> <<>>, exc |-> NoExc]

RunnerIdle ==
    /\ train = EmptyFrame(0) /\ test = EmptyFrame(0)
    /\ started = 0 /\ name = "" /\ history = EmptyFrame(0) /\ i = 0
    /\ predictions = <<>> /\ calls = <<>> /\ predTable = <<>>
    /\ errors = <<>> /\ error_means = <<>> /\ exc = NoExc
    /\ plotted = <<>> /\ returned = <<>>

Init ==
    /\ data \in Tables /\ split_date \in SplitDates /\ model_set \in ModelSets
    /\ pc = "split"
    /\ RunnerIdle
    /\ call_pred = EmptyFrame(0) /\ call_truth = EmptyFrame(0) /\ call_out = NoCall

\* ---------------------------------------------------------------- actions
\* train, test = train_test_split(data, split_date)
Split ==
    /\ pc = "split"
    /\ train' = TrainPartition(data, split_date)
    /\ test' = TestPartition(data, split_date)
    /\ pc' = "loop"
    /\ UNCHANGED <<data, split_date, model_set, started, name, history, i, predictions,
                   calls, predTable, errors, error_means, exc, plotted, returned,
                   call_pred, call_truth, call_out>>

\* for name, function in model_set.items(): enter walk_forward_evaluation
NextModel ==
    /\ pc = "loop" /\ started < Len(model_set)
    /\ started' = started + 1
    /\ name' = model_set[started + 1]
    /\ history' = InitHistory(train, history)
    /\ predictions' = <<>>
    /\ calls' = <<>>
    /\ predTable' = <<>>
    /\ i' = 0
    /\ pc' = "walk"
    /\ UNCHANGED <<data, split_date, model_set, train, test, errors, error_means, exc,
                   plotted, returned, call_pred, call_truth, call_out>>

\* one pass of the loop of walk_forward_evaluation
WalkStep ==
    /\ pc = "walk" /\ i < NRows(test)
    /\ LET res == Strategy(name, history)
           ctl == StepControl(res)
       IN /\ calls' = Append(calls, [step |-> i, seen |-> history, out |-> res])
          /\ IF ctl = "raise"
             THEN /\ exc' = res.exc
                  /\ pc' = RaiseTarget
                  /\ UNCHANGED <<predictions, history, i>>
             ELSE /\ predictions' = IF ctl = "continue"
                                    THEN Append(predictions, [step |-> i, row |-> res.row])
                                    ELSE predictions
                  /\ history' = HistoryAfterAppend(history,
                                    [label |-> test.index[i + 1], values |-> test.rows[i + 1]])
                  /\ i' = i + 1
                  /\ UNCHANGED <<exc, pc>>
    /\ UNCHANGED <<data, split_date, model_set, train, test, started, name, predTable,
                   errors, error_means, plotted, returned, call_pred, call_truth, call_out>>

\* after the loop: the Predictions Table, calculate_errors, and back in the
\* runner errors.append(errors_model), error_means.append(error_mean)
Finalize ==
    /\ pc = "walk" /\ i = NRows(test)
    /\ LET built == BuildPredictions(predictions, test)
           res == calculate_errors(built.frame, test, name)
       IN IF ~built.ok
          THEN /\ exc' = Exc("ValueError")
               /\ pc' = RaiseTarget
               /\ UNCHANGED <<predTable, errors, error_means>>
          ELSE /\ predTable' = <<built>>
               /\ IF res.ok
                  THEN /\ errors' = Append(errors, res.errors)
                       /\ error_means' = CollectMeans(error_means, res.error_mean)
                       /\ pc' = "loop"
                       /\ exc' = exc
                  ELSE /\ exc' = res.exc
                       /\ pc' = RaiseTarget
                       /\ UNCHANGED <<errors, error_means>>
    /\ UNCHANGED <<data, split_date, model_set, train, test, started, name, history, i,
                   predictions, calls, plotted, returned, call_pred, call_truth, call_out>>

\* errors = pd.concat(...); plot_error(errors, ...); return error_means
Finish ==
    /\ pc = "loop" /\ started = Len(model_set)
    /\ plotted' = <<ConcatErrors(errors)>>
    /\ returned' = <<ReturnValue(ConcatErrors(errors), error_means)>>
    /\ pc' = "done"
    /\ UNCHANGED <<data, split_date, model_set, train, test, started, name, history, i,
                   predictions, calls, predTable, errors, error_means, exc,
                   call_pred, call_truth, call_out>>

Next == Split \/ NextModel \/ WalkStep \/ Finalize \/ Finish

Spec == Init /\ [][Next]_vars

\* --------------------------------------- calculate_errors called on its own
InitErr ==
    /\ call_pred \in ErrFrames /\ call_truth \in ErrFrames
    /\ call_out = NoCall
    /\ pc = "call"
    /\ data = EmptyFrame(0) /\ split_date = 0 /\ model_set = <<>>
    /\ RunnerIdle

CalculateErrors ==
    /\ pc = "call"
    /\ call_out' = calculate_errors(call_pred, call_truth, "result_set")
    /\ pc' = "returned"
    /\ UNCHANGED <<data, split_date, model_set, train, test, started, name, history, i,
                   predictions, calls, predTable, errors, error_means, exc, plotted,
                   returned, call_pred, call_truth>>

NextErr == CalculateErrors

SpecErr == InitErr /\ [][NextErr]_vars

\* ------------------------- walk_forward_evaluation as a function of its inputs
RECURSIVE WalkFrom(_, _, _, _, _)
WalkFrom(model_name, history_, test_, step, predictions_) ==
    IF step = NRows(test_)
    THEN LET built == BuildPredictions(predictions_, test_)
         IN IF built.ok THEN calculate_errors(built.frame, test_, model_name)
            ELSE ErrorsFailed(model_name, Exc("ValueError"))
    ELSE LET res == Strategy(model_name, history_)
         IN IF StepControl(res) = "raise" THEN ErrorsFailed(model_name, res.exc)
            ELSE WalkFrom(model_name,
                          HistoryAfterAppend(history_,
                              [label |-> test_.index[step + 1], values |-> test_.rows[step + 1]]),
                          test_, step + 1,
                          IF StepControl(res) = "continue"
                          THEN Append(predictions_, [step |-> step, row |-> res.row])
                          ELSE predictions_)

walk_forward_evaluation(model_name, train_, test_) ==
    WalkFrom(model_name, InitHistory(train_, train_), test_, 0, <<>>)

\* ------------------------------------------------------------- properties
DayOf(label) == label \div HoursPerDay
Range(s) == {s[p] : p \in DOMAIN s}
StrategyFailed == calls # <<>> /\ ~calls[Len(calls)].out.ok

\* C1: the history handed to the strategy for the forecast of test position j-1
\* is the rows of train followed by the first j-1 rows of test
C1_HistoryGrows ==
    \A j \in DOMAIN calls :
        /\ calls[j].seen = FrameConcat(train, FrameRange(test, 1, j - 1))
        /\ NRows(calls[j].seen) = NRows(train) + (j - 1)

\* C2: no look-ahead: the history handed to the strategy at a step holds no row
\* of test at that position or later, only rows dated before that test row
C2_NoLookAhead ==
    \A j \in DOMAIN calls :
        LET seen == calls[j].seen
            at == calls[j].step + 1
        IN /\ \A p \in DOMAIN seen.index : seen.index[p] < test.index[at]
           /\ \A q \in at..NRows(test) : test.index[q] \notin Range(seen.index)
C2_Witness ==
    /\ Len(calls) >= 2
    /\ calls[2].step = 1 /\ calls[2].out.ok
    /\ NRows(calls[2].seen) >= 1

\* C3: alignment: once the loop has run through without a strategy failure the
\* strategy was invoked once per test row, there is one forecast per test row,
\* and the Predictions Table pairs the forecast of step p-1 with test.index[p]
C3_Alignment ==
    /\ (pc = "walk" /\ i = NRows(test)) =>
          Len(calls) = NRows(test) /\ Len(predictions) = NRows(test)
    /\ predTable # <<>> =>
          /\ Len(calls) = NRows(test)
          /\ Len(predictions) = NRows(test)
          /\ predTable[1].frame.index = test.index
          /\ predTable[1].frame.cols = test.cols
          /\ NRows(predTable[1].frame) = NRows(test)
          /\ \A p \in 1..NRows(test) :
                /\ calls[p].step = p - 1
                /\ predTable[1].steps[p] = p - 1
                /\ predTable[1].frame.rows[p] = calls[p].out.row
C3_Witness ==
    /\ predTable # <<>>
    /\ NRows(test) >= 2
    /\ name = "prev_day_persistence"

\* C4: train_test_split: train is the rows dated up to the split date, test the
\* rows dated after it, train followed by test is the table, no row is in both
C4_SplitPartition ==
    pc \notin {"split", "call", "returned"} =>
        /\ FrameConcat(train, test) = data
        /\ \A p \in DOMAIN train.index : DayOf(train.index[p]) <= split_date
        /\ \A p \in DOMAIN test.index : DayOf(test.index[p]) > split_date
        /\ \A p \in DOMAIN data.index :
              /\ DayOf(data.index[p]) <= split_date => data.index[p] \in Range(train.index)
              /\ DayOf(data.index[p]) > split_date => data.index[p] \in Range(test.index)
        /\ Range(train.index) \cap Range(test.index) = {}
C4_Witness ==
    /\ pc = "loop"
    /\ NRows(train) >= 1 /\ NRows(test) >= 1
    /\ DayOf(train.index[NRows(train)]) = split_date

\* C5: the Error Mean is the mean of the 24 per-hour errors of the Error Table
C5_MeanOfAllHours ==
    (pc = "returned" /\ call_out.ok) =>
        call_out.error_mean[1][1] = NpMean(call_out.errors.values)

\* C6: the runner returns the comparison table and the list of Error Means
C6_ReturnsTableAndMeans ==
    pc = "done" => returned[1].names = <<"errors", "error_means">>

\* C6 as amended: the runner returns only the list of Error Means, one per
\* registered model in registration order, each the error_mean calculate_errors
\* gave for that model; the comparison table, one column per registered model
\* on the 24 hour labels, is handed to the plotter and not returned
C6_ReturnsMeansOnly ==
    pc = "done" =>
        /\ returned[1].names = <<"error_means">>
        /\ Len(returned[1].error_means) = Len(model_set)
        /\ Len(plotted[1]) = Len(model_set)
        /\ \A m \in 1..Len(model_set) :
              /\ returned[1].error_means[m] =
                    walk_forward_evaluation(model_set[m], train, test).error_mean
              /\ plotted[1][m].name = model_set[m]
              /\ Len(plotted[1][m].values) = NumHours
C6_Witness ==
    /\ pc = "done"
    /\ Len(returned[1].error_means) = Len(model_set)
    /\ returned[1].error_means[1] # returned[1].error_means[2]

\* C7: failure isolation: when a strategy fails, every other registered model
\* whose own evaluation succeeds is still evaluated and its errors reported
C7_FailureIsolation ==
    (StrategyFailed /\ ~ENABLED Next) =>
        \A m \in 1..Len(model_set) :
            walk_forward_evaluation(model_set[m], train, test).ok =>
                \E e \in Range(errors) : e.name = model_set[m]

\* C7 as amended: when a strategy fails the whole run ends there: the models
\* registered before it have been evaluated, no model after it is, and nothing
\* is plotted or returned
C7_FailureAbortsRun ==
    StrategyFailed =>
        /\ pc = "failed"
        /\ ~ENABLED Next
        /\ Len(errors) = started - 1
        /\ \A m \in 1..Len(errors) : errors[m].name = model_set[m]
        /\ plotted = <<>> /\ returned = <<>>
C7_Witness ==
    /\ StrategyFailed
    /\ pc = "failed"
    /\ started < Len(model_set)
    /\ walk_forward_evaluation(model_set[started + 1], train, test).ok

\* C8: a strategy failure at step i halts the run at that step and the
\* exception handed to the caller carries the step index and the model name
C8_FailureCarriesContext ==
    StrategyFailed =>
        /\ pc = "failed"
        /\ \E n \in exc.notes : n.step = i /\ n.model_name = name

\* C8 as amended: a strategy failure at step i halts the run at that step: no
\* further invocation, no forecast for the step, no Predictions Table and no
\* errors for the model; the caller gets the strategy's own exception, with no
\* step index or model name attached
C8_FailureHalts ==
    \A j \in DOMAIN calls :
        ~calls[j].out.ok =>
            /\ j = Len(calls)
            /\ pc = "failed" /\ ~ENABLED Next
            /\ i = calls[j].step
            /\ Len(predictions) = i
            /\ predTable = <<>>
            /\ \A e \in Range(errors) : e.name # name
            /\ exc = calls[j].out.exc
            /\ exc.notes = {}
C8_Witness ==
    /\ StrategyFailed
    /\ pc = "failed"
    /\ exc.type = "KeyError"
    /\ name = "same_day_oya_persistence"

\* C9: calculate_errors reports an error whenever predictions and truth differ
\* in the number of rows or of columns
C9_ShapeMismatchReported ==
    (pc = "returned"
       /\ (NRows(call_pred) # NRows(call_truth) \/ call_pred.cols # call_truth.cols))
    => ~call_out.ok

\* C10: every evaluation starts from the rows of train, the caller's train and
\* test stay as the split made them, and each model's outcome in a run of
\* several models is its outcome when evaluated alone
C10_NoInterference ==
    pc \notin {"split", "call", "returned"} =>
        /\ train = TrainPartition(data, split_date)
        /\ test = TestPartition(data, split_date)
        /\ (pc = "walk" /\ calls = <<>>) => history = train
        /\ Len(error_means) = Len(errors)
        /\ \A m \in 1..Len(errors) :
              LET alone == walk_forward_evaluation(model_set[m], train, test)
              IN alone.ok /\ errors[m] = alone.errors
        /\ Range(error_means) =
              {walk_forward_evaluation(model_set[m], train, test).error_mean :
                  m \in 1..Len(errors)}
        /\ pc = "failed" =>
              LET alone == walk_forward_evaluation(name, train, test)
              IN ~alone.ok /\ exc = alone.exc
C10_Witness ==
    /\ Len(errors) >= 2
    /\ errors[1].values # errors[2].values
    /\ pc = "walk" /\ i >= 1
====
